---- MODULE Spec2Model ----
(***************************************************************************)
(* Model of the model-selection-and-promotion pipeline of PyLearnAI:      *)
(*   - ModelManager   (src/ai_models/model_manager.py): the models/current *)
(*     slot, the backups folder, the model_metrics table;                  *)
(*   - ModelTrainer   (src/learning/trainer.py): train / evaluate /        *)
(*     promote-or-discard;                                                 *)
(*   - DataProcessor  (src/data_processing/processor.py): the training     *)
(*     data queries;                                                       *)
(*   - MultiModelAI   (src/ai_models/multi_model_ai.py): backend selection *)
(*     and the single / dual backend invoker.                              *)
(* Scores (accuracy_score, success_rate) are in ten-thousandths, response  *)
(* qualities in tenths, so that 0.3999, 0.4, 0.05 and 0.7 are integers.    *)
(***************************************************************************)
EXTENDS Integers, Sequences, FiniteSets, TLC

\* ------------------------------------------------------------------ bounds
MaxClock == 1         \* seconds the wall clock may advance (version ids)
MaxBackups == 1       \* backup directories that may exist at once
MaxRecords == 1       \* rows the model_performance table may hold
MaxComparisons == 1   \* rows the model_comparisons table may hold
RetrainSamples == 2   \* len(training_data) of a retrain_from_scratch call
MaxHistory == 3       \* rows one client's requests add to model_performance
MaxSamples == 3       \* rows the training_data table may hold
MaxDirs == 8          \* backup directories cleanup_old_backups may find
MaxKeep == 6          \* the largest keep_count a caller passes
MaxCallers == 1       \* threads that may be inside one trigger_immediate_* function
MaxWords == 2         \* pieces a drawn text is made of

\* ------------------------------------------------------- program constants
min_accuracy == 4000            \* trainer.py: min_accuracy = 0.4
min_success_rate == 7000        \* trainer.py: min_success_rate = 0.7
improvement_threshold == 500    \* trainer.py: improvement_threshold = 0.05
MIN_TRAINING_SAMPLES == 100     \* config.py: MIN_TRAINING_SAMPLES default
MIN_QUALITY_SCORE == 5000       \* config.py: MIN_QUALITY_SCORE = 0.5
TRAINING_LIMIT == 1000          \* trainer.py: get_training_data_for_model(limit=1000)
KEEP_COUNT == 5                 \* trainer.py / tasks.py: cleanup_old_backups(keep_count=5)
DEFAULT_QUALITY == 8            \* multi_model_ai.py: response.get('quality', 0.8)
QUALITY_GOOD == 7               \* multi_model_ai.py: result[1] > 0.7
HISTORY_MIN_COUNT == 3          \* multi_model_ai.py: HAVING count >= 3
LONG_LENGTH == 500              \* multi_model_ai.py: len(content) > 500

VARIABLES
  \* ---- ModelManager / ModelTrainer / DataProcessor
  ML_AVAILABLE,       \* trainer.py / python_expert.py: torch + transformers import
  clock,              \* datetime.now() to the second: the version id source
  current,            \* content of models/current
  backups,            \* directories models/backups/model_<version>, in creation order
  model_metrics,      \* rows of table model_metrics, in insertion order
  training_data,      \* rows of table training_data
  results,            \* what the last operation returned
  call,               \* the last operation: its name and what its promote_model call returned
  \* ---- MultiModelAI
  openai_client,      \* OPENAI_API_KEY present at construction
  deepseek_available, \* DEEPSEEK_API_KEY present at construction
  model_performance,  \* rows of table model_performance, in insertion order
  model_comparisons,  \* rows of table model_comparisons, in insertion order
  response,           \* what the last generate_enhanced_response returned (or that it raised)
  request,            \* the last request and what it did (backends called, rows written)
  \* ---- ModelTrainer._should_promote_model applied to drawn inputs
  arg_evaluation,     \* the dict evaluate_trained_model returned
  arg_previous,       \* the list get_model_metrics(limit=1) returned
  decision            \* the decision: "unset", "True" or "False"

trainVars == <<ML_AVAILABLE, clock, current, backups, model_metrics,
               training_data, results, call>>
aiVars == <<openai_client, deepseek_available, model_performance,
            model_comparisons, response, request>>
fnVars == <<arg_evaluation, arg_previous, decision>>
vars == <<trainVars, aiVars, fnVars>>

\* ---------------------------------------------------------------- helpers
Reverse(s) == [i \in 1..Len(s) |-> s[Len(s) + 1 - i]]

Range(s) == {s[i] : i \in 1..Len(s)}

\* s[:n] of Python
Take(s, n) == SubSeq(s, 1, IF Len(s) < n THEN Len(s) ELSE n)

\* s[n:] of Python
Drop(s, n) == IF Len(s) <= n THEN <<>> ELSE SubSeq(s, n + 1, Len(s))

\* dict.get(key, default)
Get(d, key, default) == IF key \in DOMAIN d THEN d[key] ELSE default

\* ------------------------------------------------- file system contents
\* A directory is absent, a complete model, or the remains of an interrupted
\* copytree / rmtree.  A model is named by the version that trained it and
\* carries the accuracy_score its evaluation gave (NotEvaluated: the evaluation
\* returned an error).
NotEvaluated == -1

NoModel == [kind |-> "none", version |-> [prefix |-> "None", ts |-> 0], acc |-> NotEvaluated]

Partial == [kind |-> "partial", version |-> [prefix |-> "None", ts |-> 0], acc |-> NotEvaluated]

Model(version, acc) == [kind |-> "model", version |-> version, acc |-> acc]

\* os.path.exists(path)
exists(dir) == dir.kind # "none"

\* model_version = None
NoneVersion == [prefix |-> "None", ts |-> 0]

\* datetime.now().strftime("%Y%m%d_%H%M%S"), with the prefix the caller adds
Version(prefix, now) == [prefix |-> prefix, ts |-> now]

\* outcomes of shutil.copytree(src, dst) when src exists and dst does not
CopyOutcomes == {"ok", "fail_none", "fail_partial"}

\* outcomes of shutil.rmtree(path) when path exists
RmOutcomes == {"ok", "fail_intact", "fail_partial"}

\* shutil.copytree(src, dst): [raised, dst]; src missing or dst present raises
copytree(src, dst, outcome) ==
  IF ~exists(src) \/ exists(dst) THEN [raised |-> TRUE, dst |-> dst]
  ELSE IF outcome = "ok" THEN [raised |-> FALSE, dst |-> src]
  ELSE IF outcome = "fail_partial" THEN [raised |-> TRUE, dst |-> Partial]
  ELSE [raised |-> TRUE, dst |-> NoModel]

\* shutil.rmtree(path) of an existing path: [raised, path]
rmtree(path, outcome) ==
  IF outcome = "ok" THEN [raised |-> FALSE, path |-> NoModel]
  ELSE IF outcome = "fail_partial" THEN [raised |-> TRUE, path |-> Partial]
  ELSE [raised |-> TRUE, path |-> path]

\* the directory models/backups/model_<version>, NoModel if there is none
backup_path(bk, model_version) ==
  IF \E i \in 1..Len(bk) : bk[i].version = model_version
  THEN (bk[CHOOSE i \in 1..Len(bk) : bk[i].version = model_version]).dir
  ELSE NoModel

\* the backups folder with models/backups/model_<version> set to dir
\* (created last if it was absent)
put_backup(bk, model_version, dir) ==
  IF ~exists(dir) THEN bk
  ELSE IF exists(backup_path(bk, model_version))
  THEN [i \in 1..Len(bk) |->
          IF bk[i].version = model_version THEN [bk[i] EXCEPT !.dir = dir] ELSE bk[i]]
  ELSE Append(bk, [version |-> model_version, dir |-> dir])

\* ------------------------------------------------------------ ModelManager
\* The file-system state of a ModelManager is m = [current, backups].

\* ModelManager.create_backup: [m, ret]
create_backup(m, model_version, now, cp) ==
  IF ~exists(m.current) THEN [m |-> m, ret |-> FALSE]
  ELSE LET v == IF model_version = NoneVersion THEN Version("", now) ELSE model_version
           c == copytree(m.current, backup_path(m.backups, v), cp)
       IN [m |-> [m EXCEPT !.backups = put_backup(@, v, c.dst)], ret |-> ~c.raised]

\* as restore_backup, the backup moved into the current slot, not copied
restore_backup_moving(m, model_version, rm, cp) ==
  LET b == backup_path(m.backups, model_version)
  IN IF ~exists(b) THEN [m |-> m, ret |-> FALSE]
     ELSE LET r == IF exists(m.current) THEN rmtree(m.current, rm)
                   ELSE [raised |-> FALSE, path |-> m.current]
          IN IF r.raised THEN [m |-> [m EXCEPT !.current = r.path], ret |-> FALSE]
             ELSE LET c == copytree(b, r.path, cp)
                  IN [m |-> [current |-> c.dst,
                             backups |-> IF c.raised THEN m.backups
                                         ELSE SelectSeq(m.backups,
                                                       LAMBDA e : e.version # model_version)],
                      ret |-> ~c.raised]

\* as restore_backup, without the test that the backup exists
restore_backup_unchecked(m, model_version, rm, cp) ==
  LET b == backup_path(m.backups, model_version)
      r == IF exists(m.current) THEN rmtree(m.current, rm)
           ELSE [raised |-> FALSE, path |-> m.current]
  IN IF r.raised THEN [m |-> [m EXCEPT !.current = r.path], ret |-> FALSE]
     ELSE LET c == copytree(b, r.path, cp)
          IN [m |-> [m EXCEPT !.current = c.dst], ret |-> ~c.raised]

\* ModelManager.restore_backup: [m, ret]
restore_backup(m, model_version, rm, cp) ==
  LET b == backup_path(m.backups, model_version)
  IN IF ~exists(b) THEN [m |-> m, ret |-> FALSE]
     ELSE LET r == IF exists(m.current) THEN rmtree(m.current, rm)
                   ELSE [raised |-> FALSE, path |-> m.current]
          IN IF r.raised THEN [m |-> [m EXCEPT !.current = r.path], ret |-> FALSE]
             ELSE LET c == copytree(b, r.path, cp)
                  IN [m |-> [m EXCEPT !.current = c.dst], ret |-> ~c.raised]

\* ModelManager.promote_model: [m, ret]; new_model_path is the content of the
\* training output directory (NoModel if it was never written)
promote_model(m, new_model_path, model_version, now, bk, rm, cp) ==
  LET m1 == IF exists(m.current) THEN create_backup(m, model_version, now, bk).m ELSE m
      r == IF exists(m.current) THEN rmtree(m.current, rm)
           ELSE [raised |-> FALSE, path |-> m.current]
  IN IF r.raised THEN [m |-> [m1 EXCEPT !.current = r.path], ret |-> FALSE]
     ELSE LET c == copytree(new_model_path, r.path, cp)
          IN [m |-> [m1 EXCEPT !.current = c.dst], ret |-> ~c.raised]

RECURSIVE sorted_by_created_at(_)
\* sorted(backups, key=lambda x: x['created_at'], reverse=True)
sorted_by_created_at(S) ==
  IF S = {} THEN <<>>
  ELSE LET newest == CHOOSE x \in S : \A y \in S : y.created_at <= x.created_at
       IN <<newest>> \o sorted_by_created_at(S \ {newest})

\* ModelManager.list_backups: newest first
list_backups(m) ==
  sorted_by_created_at({[version |-> m.backups[i].version, created_at |-> i] :
                          i \in 1..Len(m.backups)})

\* the backups folder without the directories of the versions in gone
without_backups(bk, gone) ==
  LET keep == {i \in 1..Len(bk) : bk[i].version \notin gone}
      RECURSIVE pick(_)
      pick(i) == IF i > Len(bk) THEN <<>>
                 ELSE (IF i \in keep THEN <<bk[i]>> ELSE <<>>) \o pick(i + 1)
  IN pick(1)

\* as cleanup_old_backups, with the listing cut from its other end
cleanup_old_backups_keep_oldest(m, keep_count, rm) ==
  LET listed == list_backups(m)
      old == Take(listed, Len(listed) - keep_count)
  IN IF Len(listed) > keep_count
     THEN LET first == rmtree(backup_path(m.backups, old[1].version), rm)
          IN IF first.raised
             THEN [m |-> [m EXCEPT !.backups = put_backup(@, old[1].version, first.path)],
                   ret |-> FALSE]
             ELSE [m |-> [m EXCEPT !.backups =
                            without_backups(@, {old[i].version : i \in 1..Len(old)})],
                   ret |-> TRUE]
     ELSE [m |-> m, ret |-> TRUE]

\* ModelManager.cleanup_old_backups: [m, ret]; rm is the outcome of the first
\* rmtree of the loop (a raising rmtree ends the loop)
cleanup_old_backups(m, keep_count, rm) ==
  LET listed == list_backups(m)
      old == Drop(listed, keep_count)
  IN IF Len(listed) > keep_count
     THEN LET first == rmtree(backup_path(m.backups, old[1].version), rm)
          IN IF first.raised
             THEN [m |-> [m EXCEPT !.backups = put_backup(@, old[1].version, first.path)],
                   ret |-> FALSE]
             ELSE [m |-> [m EXCEPT !.backups =
                            without_backups(@, {old[i].version : i \in 1..Len(old)})],
                   ret |-> TRUE]
     ELSE [m |-> m, ret |-> TRUE]

\* columns of class ModelMetrics (models.py)
ModelMetricsColumns ==
  {"id", "model_version", "language", "accuracy_score", "response_quality",
   "training_data_count", "knowledge_base_count", "user_satisfaction",
   "evaluation_date", "metrics_data", "notes"}

\* methods class ModelMetrics defines (models.py): none
ModelMetricsMethods == {}

\* keyword arguments save_model_metrics passes to ModelMetrics(...)
SaveMetricsKeywords == {"model_version", "accuracy_score", "loss", "training_samples", "notes"}

\* ModelManager.save_model_metrics: [table, ret]; a keyword that is no column
\* makes the constructor raise TypeError, which is caught and rolled back
save_model_metrics(table, model_version, accuracy_score) ==
  IF SaveMetricsKeywords \subseteq ModelMetricsColumns
  THEN [table |-> Append(table, [model_version |-> model_version,
                                 accuracy_score |-> accuracy_score]),
        ret |-> TRUE]
  ELSE [table |-> table, ret |-> FALSE]

\* ModelManager.get_model_metrics: newest first; metric.to_dict() raises
\* AttributeError for the first row when the class has no such method
get_model_metrics(table, limit) ==
  LET rows == Take(Reverse(table), limit)
  IN IF rows # <<>> /\ "to_dict" \notin ModelMetricsMethods THEN <<>>
     ELSE rows

\* ModelManager.get_current_model_info: None (FALSE) or a dict (TRUE)
get_current_model_info(m) == exists(m.current)

\* ----------------------------------------------------------- DataProcessor
\* columns of class TrainingData (models.py)
TrainingDataColumns ==
  {"id", "question", "answer", "knowledge_base_id", "language", "difficulty",
   "question_type", "quality_score", "usage_count", "success_rate", "created_at",
   "is_validated"}

RECURSIVE order_by_quality_desc(_)
\* .order_by(TrainingData.quality_score.desc()), ties by id
order_by_quality_desc(S) ==
  IF S = {} THEN <<>>
  ELSE LET best == CHOOSE x \in S : \A y \in S :
                     \/ y.quality_score < x.quality_score
                     \/ (y.quality_score = x.quality_score /\ x.id <= y.id)
       IN <<best>> \o order_by_quality_desc(S \ {best})

\* DataProcessor.get_training_data_for_model: TrainingData.used_for_training
\* raises AttributeError when the class has no such column; the except
\* clause returns []
get_training_data_for_model(table, limit, min_quality) ==
  IF "used_for_training" \notin TrainingDataColumns THEN <<>>
  ELSE Take(order_by_quality_desc({r \in table : /\ r.quality_score >= min_quality
                                                  /\ r.used_for_training = FALSE}),
            limit)

\* mark_training_data_used taking the marked rows out of the table
mark_training_data_used_deleting(table, training_ids) ==
  [table |-> {r \in table : r.id \notin training_ids}, ret |-> TRUE]

\* DataProcessor.mark_training_data_used: [table, ret]
mark_training_data_used(table, training_ids) ==
  IF "used_for_training" \notin TrainingDataColumns
  THEN [table |-> table, ret |-> FALSE]
  ELSE [table |-> {IF r.id \in training_ids THEN [r EXCEPT !.used_for_training = TRUE]
                   ELSE r : r \in table},
        ret |-> TRUE]

\* ------------------------------------------------------------ ModelTrainer
\* accuracy_score values an evaluation may give (0.3999, 0.4, 0.6, 0.63, 0.66)
AccValues == {0, 3999, 4000, 6000, 6300, 6600}

\* success_rate values an evaluation may give
SrValues == {0, 6999, 7000}

\* ModelTrainer.evaluate_trained_model: the dicts it may return.  With no
\* successful response both metrics are 0.
EvalOutcomes ==
  {[error |-> "Failed to load model"]} \cup
  {[accuracy_score |-> a, success_rate |-> s] :
     <<a, s>> \in {x \in AccValues \X SrValues : x[2] = 0 => x[1] = 0}}

\* the evaluations a training run of the state machine may meet
RunEvalOutcomes ==
  {[error |-> "Failed to load model"]} \cup
  {[accuracy_score |-> a, success_rate |-> s] : a \in {3999, 6000, 6300}, s \in {6999, 7000}}

\* evaluation_results.get('accuracy_score'), None as NotEvaluated
accuracy_of(evaluation_results) == Get(evaluation_results, "accuracy_score", NotEvaluated)

\* PythonExpertAI.fine_tune: [ok, dir]; without the ML libraries it returns
\* SimplePythonExpert.train's dict (truthy) and writes no output directory.
\* The directory it writes is labelled with the accuracy_score the evaluation
\* of that model gives.
fine_tune(ml, trained, version, evaluation_results) ==
  IF ~ml THEN [ok |-> TRUE, dir |-> NoModel]
  ELSE IF trained THEN [ok |-> TRUE, dir |-> Model(version, accuracy_of(evaluation_results))]
  ELSE [ok |-> FALSE, dir |-> NoModel]

\* as _should_promote_model, with the minimum-accuracy comparison written <=
_should_promote_model_strict(evaluation_results, previous_metrics) ==
  IF "error" \in DOMAIN evaluation_results THEN FALSE
  ELSE LET accuracy == Get(evaluation_results, "accuracy_score", 0)
           success_rate == Get(evaluation_results, "success_rate", 0)
       IN IF accuracy <= min_accuracy THEN FALSE
          ELSE IF success_rate < min_success_rate THEN FALSE
          ELSE IF previous_metrics # <<>>
                  /\ accuracy < Get(previous_metrics[1], "accuracy_score", 0)
                                + improvement_threshold
          THEN FALSE
          ELSE TRUE

\* ModelTrainer._should_promote_model; previous_metrics is what
\* get_model_metrics(limit=1) returned
_should_promote_model(evaluation_results, previous_metrics) ==
  IF "error" \in DOMAIN evaluation_results THEN FALSE
  ELSE LET accuracy == Get(evaluation_results, "accuracy_score", 0)
           success_rate == Get(evaluation_results, "success_rate", 0)
       IN IF accuracy < min_accuracy THEN FALSE
          ELSE IF success_rate < min_success_rate THEN FALSE
          ELSE IF previous_metrics # <<>>
                  /\ accuracy < Get(previous_metrics[1], "accuracy_score", 0)
                                + improvement_threshold
          THEN FALSE
          ELSE TRUE

\* ModelTrainer.evaluate_trained_model: load_model_from_path fails on a missing
\* directory when the ML libraries are in use; otherwise one of EvalOutcomes
evaluate_trained_model(ml, model_path, outcome) ==
  IF ml /\ ~exists(model_path) THEN [error |-> "Failed to load model"] ELSE outcome

\* the trainer's view of the world: st = [m, model_metrics, training_data]
\* an operation returns [st, results, call]
Called(op, promote) == [op |-> op, promote |-> promote]

\* str(bool) of promote_model's return
PyBool(b) == IF b THEN "True" ELSE "False"

\* as train_model_with_new_data, with the backup taken before the data is counted
train_model_with_new_data_backup_first(st, ml, now, force_training, in) ==
  LET training_data_ == get_training_data_for_model(st.training_data, TRAINING_LIMIT,
                                                    MIN_QUALITY_SCORE)
      model_version == Version("", now)
      results0 == [success |-> FALSE, training_samples |-> 0,
                   model_version |-> NoneVersion, error |-> "None"]
      op == "train_model_with_new_data"
      b0 == create_backup(st.m, model_version, now, in.cp1)
  IN IF training_data_ = <<>>
     THEN [st |-> [st EXCEPT !.m = b0.m], call |-> Called(op, "not called"),
           results |-> [results0 EXCEPT !.error = "No training data available"]]
     ELSE IF Len(training_data_) < MIN_TRAINING_SAMPLES /\ ~force_training
     THEN [st |-> [st EXCEPT !.m = b0.m], call |-> Called(op, "not called"),
           results |-> [results0 EXCEPT !.error = "Insufficient training data"]]
     ELSE
       LET b == create_backup(st.m, model_version, now, in.cp1)
           ft == fine_tune(ml, in.trained, model_version, in.ev)
       IN IF ~ft.ok
          THEN [st |-> [st EXCEPT !.m = b.m], call |-> Called(op, "not called"),
                results |-> [results0 EXCEPT !.error = "Model training failed"]]
          ELSE
            LET evaluation_results == evaluate_trained_model(ml, ft.dir, in.ev)
                should_promote ==
                  _should_promote_model(evaluation_results,
                                        get_model_metrics(st.model_metrics, 1))
                p == IF should_promote
                     THEN promote_model(b.m, ft.dir, model_version, now, in.bk, in.rm, in.cp)
                     ELSE [m |-> b.m, ret |-> FALSE]
                promote_success == should_promote /\ p.ret
                marked == IF promote_success
                          THEN mark_training_data_used(
                                 st.training_data,
                                 {training_data_[i].id : i \in 1..Len(training_data_)})
                          ELSE [table |-> st.training_data, ret |-> FALSE]
                saved == IF promote_success
                         THEN save_model_metrics(st.model_metrics, model_version,
                                                 accuracy_of(evaluation_results))
                         ELSE [table |-> st.model_metrics, ret |-> FALSE]
                c == cleanup_old_backups(p.m, KEEP_COUNT, in.crm)
            IN [st |-> [m |-> c.m, model_metrics |-> saved.table,
                        training_data |-> marked.table],
                call |-> Called(op, IF should_promote THEN PyBool(p.ret) ELSE "not called"),
                results |->
                  [success |-> promote_success,
                   training_samples |-> Len(training_data_),
                   model_version |-> IF promote_success THEN model_version ELSE NoneVersion,
                   error |-> IF promote_success THEN "None"
                             ELSE IF should_promote THEN "Failed to promote new model"
                             ELSE "New model performance not satisfactory"]]

\* as train_model_with_new_data, the empty pull answered without an error message
train_model_with_new_data_silent(st, ml, now, force_training, in) ==
  LET training_data_ == get_training_data_for_model(st.training_data, TRAINING_LIMIT,
                                                    MIN_QUALITY_SCORE)
      model_version == Version("", now)
      results0 == [success |-> FALSE, training_samples |-> 0,
                   model_version |-> NoneVersion, error |-> "None"]
      op == "train_model_with_new_data"
  IN IF training_data_ = <<>>
     THEN [st |-> st, call |-> Called(op, "not called"),
           results |-> results0]
     ELSE IF Len(training_data_) < MIN_TRAINING_SAMPLES /\ ~force_training
     THEN [st |-> st, call |-> Called(op, "not called"),
           results |-> [results0 EXCEPT !.error = "Insufficient training data"]]
     ELSE
       LET b == create_backup(st.m, model_version, now, in.cp1)
           ft == fine_tune(ml, in.trained, model_version, in.ev)
       IN IF ~ft.ok
          THEN [st |-> [st EXCEPT !.m = b.m], call |-> Called(op, "not called"),
                results |-> [results0 EXCEPT !.error = "Model training failed"]]
          ELSE
            LET evaluation_results == evaluate_trained_model(ml, ft.dir, in.ev)
                should_promote ==
                  _should_promote_model(evaluation_results,
                                        get_model_metrics(st.model_metrics, 1))
                p == IF should_promote
                     THEN promote_model(b.m, ft.dir, model_version, now, in.bk, in.rm, in.cp)
                     ELSE [m |-> b.m, ret |-> FALSE]
                promote_success == should_promote /\ p.ret
                marked == IF promote_success
                          THEN mark_training_data_used(
                                 st.training_data,
                                 {training_data_[i].id : i \in 1..Len(training_data_)})
                          ELSE [table |-> st.training_data, ret |-> FALSE]
                saved == IF promote_success
                         THEN save_model_metrics(st.model_metrics, model_version,
                                                 accuracy_of(evaluation_results))
                         ELSE [table |-> st.model_metrics, ret |-> FALSE]
                c == cleanup_old_backups(p.m, KEEP_COUNT, in.crm)
            IN [st |-> [m |-> c.m, model_metrics |-> saved.table,
                        training_data |-> marked.table],
                call |-> Called(op, IF should_promote THEN PyBool(p.ret) ELSE "not called"),
                results |->
                  [success |-> promote_success,
                   training_samples |-> Len(training_data_),
                   model_version |-> IF promote_success THEN model_version ELSE NoneVersion,
                   error |-> IF promote_success THEN "None"
                             ELSE IF should_promote THEN "Failed to promote new model"
                             ELSE "New model performance not satisfactory"]]

\* ModelTrainer.train_model_with_new_data
train_model_with_new_data(st, ml, now, force_training, in) ==
  LET training_data_ == get_training_data_for_model(st.training_data, TRAINING_LIMIT,
                                                    MIN_QUALITY_SCORE)
      model_version == Version("", now)
      results0 == [success |-> FALSE, training_samples |-> 0,
                   model_version |-> NoneVersion, error |-> "None"]
      op == "train_model_with_new_data"
  IN IF training_data_ = <<>>
     THEN [st |-> st, call |-> Called(op, "not called"),
           results |-> [results0 EXCEPT !.error = "No training data available"]]
     ELSE IF Len(training_data_) < MIN_TRAINING_SAMPLES /\ ~force_training
     THEN [st |-> st, call |-> Called(op, "not called"),
           results |-> [results0 EXCEPT !.error = "Insufficient training data"]]
     ELSE
       LET b == create_backup(st.m, model_version, now, in.cp1)
           ft == fine_tune(ml, in.trained, model_version, in.ev)
       IN IF ~ft.ok
          THEN [st |-> [st EXCEPT !.m = b.m], call |-> Called(op, "not called"),
                results |-> [results0 EXCEPT !.error = "Model training failed"]]
          ELSE
            LET evaluation_results == evaluate_trained_model(ml, ft.dir, in.ev)
                should_promote ==
                  _should_promote_model(evaluation_results,
                                        get_model_metrics(st.model_metrics, 1))
                p == IF should_promote
                     THEN promote_model(b.m, ft.dir, model_version, now, in.bk, in.rm, in.cp)
                     ELSE [m |-> b.m, ret |-> FALSE]
                promote_success == should_promote /\ p.ret
                marked == IF promote_success
                          THEN mark_training_data_used(
                                 st.training_data,
                                 {training_data_[i].id : i \in 1..Len(training_data_)})
                          ELSE [table |-> st.training_data, ret |-> FALSE]
                saved == IF promote_success
                         THEN save_model_metrics(st.model_metrics, model_version,
                                                 accuracy_of(evaluation_results))
                         ELSE [table |-> st.model_metrics, ret |-> FALSE]
                c == cleanup_old_backups(p.m, KEEP_COUNT, in.crm)
            IN [st |-> [m |-> c.m, model_metrics |-> saved.table,
                        training_data |-> marked.table],
                call |-> Called(op, IF should_promote THEN PyBool(p.ret) ELSE "not called"),
                results |->
                  [success |-> promote_success,
                   training_samples |-> Len(training_data_),
                   model_version |-> IF promote_success THEN model_version ELSE NoneVersion,
                   error |-> IF promote_success THEN "None"
                             ELSE IF should_promote THEN "Failed to promote new model"
                             ELSE "New model performance not satisfactory"]]

\* ModelTrainer.retrain_from_scratch
retrain_from_scratch(st, ml, now, in) ==
  LET model_version == Version("retrain_", now)
      ft == fine_tune(ml, in.trained, model_version, in.ev)
      op == "retrain_from_scratch"
  IN IF ft.ok
     THEN LET evaluation_results == evaluate_trained_model(ml, ft.dir, in.ev)
              p == promote_model(st.m, ft.dir, model_version, now, in.bk, in.rm, in.cp)
              saved == save_model_metrics(st.model_metrics, model_version,
                                          accuracy_of(evaluation_results))
          IN [st |-> [st EXCEPT !.m = p.m, !.model_metrics = saved.table],
              call |-> Called(op, PyBool(p.ret)),
              results |-> [success |-> TRUE, model_version |-> model_version,
                           training_samples |-> RetrainSamples]]
     ELSE [st |-> st, call |-> Called(op, "not called"),
           results |-> [success |-> FALSE, error |-> "Training failed"]]

\* ------------------------------------------------- trainer: state machine

\* what a training run meets: fine_tune's success, the evaluation, the outcome
\* of each file-system call and of the database
TrainInputs ==
  [trained : BOOLEAN, ev : RunEvalOutcomes, cp1 : CopyOutcomes, bk : CopyOutcomes,
   rm : RmOutcomes, cp : CopyOutcomes, crm : RmOutcomes]

\* the inputs a run reads when it returns before training
NoInputs ==
  [trained |-> TRUE, ev |-> [error |-> "Failed to load model"], cp1 |-> "ok", bk |-> "ok",
   rm |-> "ok", cp |-> "ok", crm |-> "ok"]

\* the inputs of a retrain whose fine_tune fails: none is read
NoInputRead ==
  [trained |-> FALSE, ev |-> [error |-> "Failed to load model"], bk |-> "ok", rm |-> "ok",
   cp |-> "ok"]

\* a retrain reads the backup and rmtree outcomes only over an existing model,
\* and each other input only when it gets to the call that gives it
RetrainInputs(cur) ==
  {in \in [trained : BOOLEAN, ev : RunEvalOutcomes,
           bk : IF exists(cur) THEN CopyOutcomes ELSE {"ok"},
           rm : IF exists(cur) THEN RmOutcomes ELSE {"ok"},
           cp : CopyOutcomes] :
     \* without the ML libraries fine_tune does not train and writes nothing to copy
     /\ ~ML_AVAILABLE => (in.trained /\ in.cp = "ok")
     \* a failed fine_tune ends the run
     /\ (ML_AVAILABLE /\ ~in.trained) => in = NoInputRead
     \* a raising rmtree ends promote_model before its copytree
     /\ in.rm # "ok" => in.cp = "ok"}

TrainerState == [m |-> [current |-> current, backups |-> backups],
                 model_metrics |-> model_metrics, training_data |-> training_data]

Apply(out) ==
  /\ current' = out.st.m.current
  /\ backups' = out.st.m.backups
  /\ model_metrics' = out.st.model_metrics
  /\ training_data' = out.st.training_data
  /\ results' = out.results
  /\ call' = out.call

InitTrainer ==
  /\ ML_AVAILABLE \in BOOLEAN
  /\ clock = 0
  /\ current = NoModel
  /\ backups = <<>>
  /\ model_metrics = <<>>
  /\ training_data = {}
  /\ results = [success |-> FALSE]
  /\ call = Called("init", "not called")

\* the trainer's part of the state where no trainer runs
IdleTrainer == InitTrainer /\ ML_AVAILABLE = FALSE

InitAI ==
  /\ openai_client = FALSE
  /\ deepseek_available = FALSE
  /\ model_performance = <<>>
  /\ model_comparisons = <<>>
  /\ response = [success |-> FALSE]
  /\ request = [op |-> "init"]

\* a second passes
Tick ==
  /\ clock < MaxClock
  /\ clock' = clock + 1
  /\ call' = Called("tick", "not called")
  /\ UNCHANGED <<ML_AVAILABLE, current, backups, model_metrics, training_data, results,
                 aiVars, fnVars>>

\* a run's outcome with the force_training argument of the call kept in call
Forced(out, force_training) ==
  [out EXCEPT !.call = [op |-> @.op, promote |-> @.promote,
                        force_training |-> force_training]]

\* scheduler/tasks.py train_model_task, or a direct call
TrainModelWithNewData ==
  /\ Len(backups) < MaxBackups
  /\ \E force_training \in BOOLEAN :
       LET training_data_ == get_training_data_for_model(training_data, TRAINING_LIMIT,
                                                         MIN_QUALITY_SCORE)
       IN IF \/ training_data_ = <<>>
             \/ (Len(training_data_) < MIN_TRAINING_SAMPLES /\ ~force_training)
          THEN Apply(Forced(train_model_with_new_data(TrainerState, ML_AVAILABLE, clock,
                                                      force_training, NoInputs),
                            force_training))
          ELSE \E in \in TrainInputs :
                 Apply(Forced(train_model_with_new_data(TrainerState, ML_AVAILABLE, clock,
                                                        force_training, in),
                              force_training))
  /\ UNCHANGED <<ML_AVAILABLE, clock, aiVars, fnVars>>

RetrainFromScratch ==
  /\ Len(backups) < MaxBackups
  /\ \E in \in RetrainInputs(current) :
       Apply(retrain_from_scratch(TrainerState, ML_AVAILABLE, clock, in))
  /\ UNCHANGED <<ML_AVAILABLE, clock, aiVars, fnVars>>

\* ModelManager.create_backup() called on its own
CreateBackup ==
  /\ Len(backups) < MaxBackups
  /\ \E cp \in CopyOutcomes :
       LET out == create_backup(TrainerState.m, NoneVersion, clock, cp)
       IN Apply([st |-> [TrainerState EXCEPT !.m = out.m],
                 results |-> [success |-> out.ret],
                 call |-> Called("create_backup", "not called")])
  /\ UNCHANGED <<ML_AVAILABLE, clock, aiVars, fnVars>>

\* version ids a caller may name
Versions == {Version(p, t) : p \in {"", "retrain_"}, t \in 0..MaxClock}

\* restore_backup meets the outcome of a file-system call only when it makes
\* the call: the backup of version v exists and, for rmtree, so does current
RestoreReads(v, called, outcomes) ==
  IF exists(backup_path(backups, v)) /\ called THEN outcomes ELSE {"ok"}

\* ModelManager.restore_backup(model_version) called on its own
RestoreBackup ==
  /\ \E v \in Versions :
     \E rm \in RestoreReads(v, exists(current), RmOutcomes),
        cp \in RestoreReads(v, TRUE, CopyOutcomes) :
       LET out == restore_backup(TrainerState.m, v, rm, cp)
       IN Apply([st |-> [TrainerState EXCEPT !.m = out.m],
                 results |-> [success |-> out.ret],
                 call |-> [op |-> "restore_backup", promote |-> "not called",
                           model_version |-> v]])
  /\ UNCHANGED <<ML_AVAILABLE, clock, aiVars, fnVars>>

\* scheduler/tasks.py cleanup_task: cleanup_old_backups(keep_count=5)
CleanupTask ==
  /\ \E rm \in RmOutcomes :
       LET out == cleanup_old_backups(TrainerState.m, KEEP_COUNT, rm)
       IN Apply([st |-> [TrainerState EXCEPT !.m = out.m],
                 results |-> [success |-> out.ret],
                 call |-> Called("cleanup_old_backups", "not called")])
  /\ UNCHANGED <<ML_AVAILABLE, clock, aiVars, fnVars>>

NextTrainer ==
  \/ Tick
  \/ TrainModelWithNewData
  \/ RetrainFromScratch
  \/ CreateBackup
  \/ RestoreBackup
  \/ CleanupTask

InitFn ==
  /\ arg_evaluation = [error |-> "Failed to load model"]
  /\ arg_previous = <<>>
  /\ decision = "unset"

Init == InitTrainer /\ InitAI /\ InitFn

Next == NextTrainer

Spec == Init /\ [][Next]_vars

\* ------------------------------- _should_promote_model on drawn inputs
\* dicts evaluate_trained_model may hand over, a missing key included
EvalInputs ==
  EvalOutcomes \cup
  {[accuracy_score |-> a] : a \in AccValues} \cup
  {[success_rate |-> r] : r \in SrValues}

\* lists get_model_metrics(limit=1) may hand over
PreviousInputs == {<<>>} \cup {<<[accuracy_score |-> a]>> : a \in AccValues}

InitPromote ==
  /\ IdleTrainer /\ InitAI
  /\ arg_evaluation \in EvalInputs
  /\ arg_previous \in PreviousInputs
  /\ decision = "unset"

ShouldPromote ==
  /\ decision = "unset"
  /\ decision' = PyBool(_should_promote_model(arg_evaluation, arg_previous))
  /\ UNCHANGED <<trainVars, aiVars, arg_evaluation, arg_previous>>

NextPromote == ShouldPromote

SpecPromote == InitPromote /\ [][NextPromote]_vars

\* ------------------------------------------------------------ MultiModelAI
\* A formatted string (an f-string, str(exception)) is the sequence of its
\* pieces.  A content is the empty string or a text with the features
\* _estimate_response_quality looks for.
Backends == {"openai", "deepseek"}

Features == {"code_block", "explanation", "best_practice", "example", "long"}

Content(empty, features) == [empty |-> empty, features |-> features]

\* ''
EmptyContent == Content(TRUE, {})

\* {}
EmptyDict == <<>>

\* MultiModelAI.load_model_preferences
model_preferences ==
  [code_generation |->
     [python |-> [primary |-> "openai", fallback |-> "deepseek"],
      javascript |-> [primary |-> "deepseek", fallback |-> "openai"],
      react |-> [primary |-> "openai", fallback |-> "deepseek"],
      general |-> [primary |-> "openai", fallback |-> "deepseek"]],
   debugging |->
     [python |-> [primary |-> "deepseek", fallback |-> "openai"],
      javascript |-> [primary |-> "openai", fallback |-> "deepseek"],
      general |-> [primary |-> "deepseek", fallback |-> "openai"]],
   learning |-> [all |-> [primary |-> "openai", fallback |-> "deepseek"]],
   architecture |-> [all |-> [primary |-> "openai", fallback |-> "deepseek"]]]

\* the characters of a language name
chars(language) ==
  CASE language = "python" -> <<"p", "y", "t", "h", "o", "n">>
    [] language = "javascript" -> <<"j", "a", "v", "a", "s", "c", "r", "i", "p", "t">>
    [] language = "react" -> <<"r", "e", "a", "c", "t">>
    [] language = "general" -> <<"g", "e", "n", "e", "r", "a", "l">>
    [] language = "all" -> <<"a", "l", "l">>
    [] language = "rust" -> <<"r", "u", "s", "t">>
    [] language = "7" -> <<"7">>

\* str(hash(query + task_type)): the decimal digits of one process's hash
query_hash_of(query, task_type) ==
  IF task_type = "code_generation" THEN <<"-", "7", "1">>
  ELSE IF task_type = "debugging" THEN <<"4", "2">>
  ELSE <<"9", "0", "7">>

\* SQL: s LIKE '%' || sub || '%'
like(s, sub) ==
  \E i \in 0..(Len(s) - Len(sub)) : SubSeq(s, i + 1, i + Len(sub)) = sub

RECURSIVE sum_quality(_, _)
\* SUM(response_quality) over the rows with index in S
sum_quality(table, S) ==
  IF S = {} THEN 0
  ELSE LET i == CHOOSE j \in S : TRUE
       IN table[i].response_quality + sum_quality(table, S \ {i})

\* MultiModelAI._get_best_performing_model: a backend name or "None"; a
\* database error is caught and gives None.  AVG > 0.7 is SUM > 0.7 * COUNT.
_get_best_performing_model(table, task_type, language, read_ok) ==
  IF ~read_ok THEN "None"
  ELSE LET rows == {i \in 1..Len(table) :
                      /\ table[i].task_type = task_type
                      /\ like(table[i].query_hash, chars(language))}
           group(m) == {i \in rows : table[i].model_name = m}
           count(m) == Cardinality(group(m))
           having == {m \in {table[i].model_name : i \in rows} :
                        count(m) >= HISTORY_MIN_COUNT}
           total(m) == sum_quality(table, group(m))
           best == CHOOSE m \in having :
                     \A n \in having : total(n) * count(m) <= total(m) * count(n)
       IN IF having # {} /\ total(best) > QUALITY_GOOD * count(best) THEN best
          ELSE "None"

\* self.model_preferences lookup of select_optimal_model
lang_prefs(task_type, language) ==
  LET task_prefs == Get(model_preferences, task_type, EmptyDict)
  IN Get(task_prefs, language,
         Get(task_prefs, "general", Get(task_prefs, "all", EmptyDict)))

\* MultiModelAI.select_optimal_model; self = [openai_client, deepseek_available]
select_optimal_model(self, table, task_type, language, read_ok) ==
  LET best_model == _get_best_performing_model(table, task_type, language, read_ok)
      primary_model == Get(lang_prefs(task_type, language), "primary", "openai")
      fallback == Get(lang_prefs(task_type, language), "fallback", "openai")
  IN IF best_model # "None" THEN best_model
     ELSE IF primary_model = "openai" /\ self.openai_client THEN "openai"
     ELSE IF primary_model = "deepseek" /\ self.deepseek_available THEN "deepseek"
     ELSE IF fallback = "openai" /\ self.openai_client THEN "openai"
     ELSE IF fallback = "deepseek" /\ self.deepseek_available THEN "deepseek"
     ELSE IF self.openai_client THEN "openai" ELSE "deepseek"

\* as _estimate_response_quality, without the test for an empty content
_estimate_response_quality_no_empty_test(content) ==
  LET quality_score == 5 + Cardinality(content.features \cap Features)
  IN IF quality_score < 10 THEN quality_score ELSE 10

\* MultiModelAI._estimate_response_quality, in tenths
_estimate_response_quality(content) ==
  IF content.empty THEN 0
  ELSE LET quality_score == 5 + Cardinality(content.features \cap Features)
       IN IF quality_score < 10 THEN quality_score ELSE 10

\* what a backend's API may answer: a content with a token count, or an error
\* (network failure, a status other than 200, a malformed body)
ApiOutcomes ==
  {[ok |-> TRUE, content |-> Content(FALSE, f), tokens_used |-> 10] :
     f \in {{}, {"code_block", "explanation", "long"}}} \cup
  {[ok |-> FALSE, error |-> <<"API error">>]}

\* MultiModelAI._call_openai: [raised, exception] or [raised, value]; called
\* tells whether the API was reached
_call_openai(self, outcome) ==
  IF ~self.openai_client
  THEN [raised |-> TRUE, exception |-> <<"OpenAI client not available">>, called |-> FALSE]
  ELSE IF outcome.ok
  THEN [raised |-> FALSE, called |-> TRUE,
        value |-> [content |-> outcome.content, tokens_used |-> outcome.tokens_used,
                   quality |-> _estimate_response_quality(outcome.content),
                   model |-> "openai"]]
  ELSE [raised |-> TRUE, exception |-> outcome.error, called |-> TRUE]

\* MultiModelAI._call_deepseek
_call_deepseek(self, outcome) ==
  IF ~self.deepseek_available
  THEN [raised |-> TRUE, exception |-> <<"DeepSeek API not available">>, called |-> FALSE]
  ELSE IF outcome.ok
  THEN [raised |-> FALSE, called |-> TRUE,
        value |-> [content |-> outcome.content, tokens_used |-> outcome.tokens_used,
                   quality |-> _estimate_response_quality(outcome.content),
                   model |-> "deepseek"]]
  ELSE [raised |-> TRUE, exception |-> outcome.error, called |-> TRUE]

\* MultiModelAI._store_performance_metrics: the table after the call; a
\* database error is caught and logged
_store_performance_metrics(table, model, task_type, query, quality, tokens_used, write_ok) ==
  IF write_ok
  THEN Append(table, [model_name |-> model, task_type |-> task_type,
                      query_hash |-> query_hash_of(query, task_type),
                      response_quality |-> quality, tokens_used |-> tokens_used])
  ELSE table

\* MultiModelAI._store_model_comparison: the table after the call
_store_model_comparison(table, query, task_type, comparison_data, write_ok) ==
  IF write_ok
  THEN Append(table,
              [query |-> query, query_type |-> task_type,
               openai_response |-> Get(comparison_data, "openai_response", EmptyContent),
               deepseek_response |-> Get(comparison_data, "deepseek_response", EmptyContent),
               openai_tokens |-> Get(comparison_data, "openai_tokens", 0),
               deepseek_tokens |-> Get(comparison_data, "deepseek_tokens", 0),
               preferred_model |-> Get(comparison_data, "primary_model", "")])
  ELSE table

\* MultiModelAI._create_error_response
_create_error_response(error_message) ==
  [success |-> FALSE, error |-> error_message,
   response |-> <<"I'm sorry, but I encountered an error: ">> \o error_message,
   model_used |-> "none", tokens_used |-> 0]

\* as _generate_with_single_model, without the test of the backend's availability
_generate_with_single_model_unchecked(self, table, query, language, task_type, model, in) ==
  LET r == IF model = "openai" THEN _call_openai(self, in.openai)
           ELSE _call_deepseek(self, in.deepseek)
  IN IF r.raised
     THEN [ret |-> _create_error_response(<<"Error with ", model, " model: ">> \o r.exception),
           table |-> table, called |-> IF r.called THEN {model} ELSE {}]
     ELSE [ret |-> [success |-> TRUE, response |-> r.value.content, model_used |-> model,
                    tokens_used |-> Get(r.value, "tokens_used", 0),
                    quality_score |-> Get(r.value, "quality", DEFAULT_QUALITY),
                    task_type |-> task_type, language |-> language],
           table |-> _store_performance_metrics(table, model, task_type, query,
                                                Get(r.value, "quality", DEFAULT_QUALITY),
                                                Get(r.value, "tokens_used", 0), in.write_ok),
           called |-> {model}]

\* as _generate_with_single_model, with a row stored for a failed call too
_generate_with_single_model_recording_failures(self, table, query, language, task_type, model, in) ==
  LET has == \/ model = "openai" /\ self.openai_client
             \/ model = "deepseek" /\ self.deepseek_available
      r == IF model = "openai" THEN _call_openai(self, in.openai)
           ELSE _call_deepseek(self, in.deepseek)
  IN IF ~has
     THEN [ret |-> _create_error_response(<<"No available models for this request">>),
           table |-> table, called |-> {}]
     ELSE IF r.raised
     THEN [ret |-> _create_error_response(<<"Error with ", model, " model: ">> \o r.exception),
           table |-> _store_performance_metrics(table, model, task_type, query, 0, 0,
                                                in.write_ok),
           called |-> {model}]
     ELSE [ret |-> [success |-> TRUE, response |-> r.value.content, model_used |-> model,
                    tokens_used |-> Get(r.value, "tokens_used", 0),
                    quality_score |-> Get(r.value, "quality", DEFAULT_QUALITY),
                    task_type |-> task_type, language |-> language],
           table |-> _store_performance_metrics(table, model, task_type, query,
                                                Get(r.value, "quality", DEFAULT_QUALITY),
                                                Get(r.value, "tokens_used", 0), in.write_ok),
           called |-> {model}]

\* as _generate_with_single_model, without its try / except
_generate_with_single_model_uncaught(self, table, query, language, task_type, model, in) ==
  LET has == \/ model = "openai" /\ self.openai_client
             \/ model = "deepseek" /\ self.deepseek_available
      r == IF model = "openai" THEN _call_openai(self, in.openai)
           ELSE _call_deepseek(self, in.deepseek)
  IN IF ~has
     THEN [ret |-> _create_error_response(<<"No available models for this request">>),
           table |-> table, called |-> {}]
     ELSE IF r.raised
     THEN [ret |-> [raised |-> r.exception], table |-> table, called |-> {model}]
     ELSE [ret |-> [success |-> TRUE, response |-> r.value.content, model_used |-> model,
                    tokens_used |-> Get(r.value, "tokens_used", 0),
                    quality_score |-> Get(r.value, "quality", DEFAULT_QUALITY),
                    task_type |-> task_type, language |-> language],
           table |-> _store_performance_metrics(table, model, task_type, query,
                                                Get(r.value, "quality", DEFAULT_QUALITY),
                                                Get(r.value, "tokens_used", 0), in.write_ok),
           called |-> {model}]

\* MultiModelAI._generate_with_single_model: [ret, table, called]; ret is the
\* dict returned, table is model_performance after the call, called the
\* backends whose API was reached
_generate_with_single_model(self, table, query, language, task_type, model, in) ==
  LET has == \/ model = "openai" /\ self.openai_client
             \/ model = "deepseek" /\ self.deepseek_available
      r == IF model = "openai" THEN _call_openai(self, in.openai)
           ELSE _call_deepseek(self, in.deepseek)
  IN IF ~has
     THEN [ret |-> _create_error_response(<<"No available models for this request">>),
           table |-> table, called |-> {}]
     ELSE IF r.raised
     THEN [ret |-> _create_error_response(<<"Error with ", model, " model: ">> \o r.exception),
           table |-> table, called |-> {model}]
     ELSE [ret |-> [success |-> TRUE, response |-> r.value.content, model_used |-> model,
                    tokens_used |-> Get(r.value, "tokens_used", 0),
                    quality_score |-> Get(r.value, "quality", DEFAULT_QUALITY),
                    task_type |-> task_type, language |-> language],
           table |-> _store_performance_metrics(table, model, task_type, query,
                                                Get(r.value, "quality", DEFAULT_QUALITY),
                                                Get(r.value, "tokens_used", 0), in.write_ok),
           called |-> {model}]

\* _generate_with_both_models, "Process responses": the result dict before the
\* primary is chosen; o and d are what asyncio.gather(return_exceptions=True)
\* handed back for _call_openai and _call_deepseek
comparison_result(o, d, task_type, language) ==
  LET base == [success |-> TRUE, response_type |-> "comparison",
               task_type |-> task_type, language |-> language]
      openai_part == IF o.raised THEN [openai_error |-> o.exception]
                     ELSE [openai_response |-> Get(o.value, "content", EmptyContent),
                           openai_tokens |-> Get(o.value, "tokens_used", 0)]
      deepseek_part == IF d.raised THEN [deepseek_error |-> d.exception]
                       ELSE [deepseek_response |-> Get(d.value, "content", EmptyContent),
                             deepseek_tokens |-> Get(d.value, "tokens_used", 0)]
  IN base @@ openai_part @@ deepseek_part

\* as select_primary, with openai reported as primary when both backends failed
select_primary_default_openai(result, o, d) ==
  IF ~o.raised /\ ~d.raised
  THEN IF Get(d.value, "quality", DEFAULT_QUALITY) > Get(o.value, "quality", DEFAULT_QUALITY)
       THEN [response |-> Get(d.value, "content", EmptyContent),
             primary_model |-> "deepseek"] @@ result
       ELSE [response |-> Get(o.value, "content", EmptyContent),
             primary_model |-> "openai"] @@ result
  ELSE IF ~d.raised /\ o.raised
  THEN [response |-> Get(d.value, "content", EmptyContent), primary_model |-> "deepseek"] @@ result
  ELSE [response |-> IF o.raised THEN EmptyContent ELSE Get(o.value, "content", EmptyContent),
        primary_model |-> "openai"] @@ result

\* as select_primary, with deepseek preferred on equal quality
select_primary_ties_to_deepseek(result, o, d) ==
  IF ~o.raised /\ ~d.raised
  THEN IF Get(d.value, "quality", DEFAULT_QUALITY) >= Get(o.value, "quality", DEFAULT_QUALITY)
       THEN [response |-> Get(d.value, "content", EmptyContent),
             primary_model |-> "deepseek"] @@ result
       ELSE [response |-> Get(o.value, "content", EmptyContent),
             primary_model |-> "openai"] @@ result
  ELSE IF ~o.raised
  THEN [response |-> Get(o.value, "content", EmptyContent), primary_model |-> "openai"] @@ result
  ELSE IF ~d.raised
  THEN [response |-> Get(d.value, "content", EmptyContent), primary_model |-> "deepseek"] @@ result
  ELSE [success |-> FALSE, error |-> <<"Both models failed to generate responses">>] @@ result

\* _generate_with_both_models, "Select best response for primary response"
select_primary(result, o, d) ==
  IF ~o.raised /\ ~d.raised
  THEN IF Get(d.value, "quality", DEFAULT_QUALITY) > Get(o.value, "quality", DEFAULT_QUALITY)
       THEN [response |-> Get(d.value, "content", EmptyContent),
             primary_model |-> "deepseek"] @@ result
       ELSE [response |-> Get(o.value, "content", EmptyContent),
             primary_model |-> "openai"] @@ result
  ELSE IF ~o.raised
  THEN [response |-> Get(o.value, "content", EmptyContent), primary_model |-> "openai"] @@ result
  ELSE IF ~d.raised
  THEN [response |-> Get(d.value, "content", EmptyContent), primary_model |-> "deepseek"] @@ result
  ELSE [success |-> FALSE, error |-> <<"Both models failed to generate responses">>] @@ result

\* as _generate_with_both_models, with asyncio.gather letting the first
\* exception through to the except clause
_generate_with_both_models_propagating(self, table, query, language, task_type, in) ==
  LET o == _call_openai(self, in.openai)
      d == _call_deepseek(self, in.deepseek)
      result == comparison_result(o, d, task_type, language)
      called == {b \in Backends : IF b = "openai" THEN o.called ELSE d.called}
  IN IF o.raised \/ d.raised
     THEN [ret |-> _create_error_response(<<"Dual model error: ">> \o
                                          (IF o.raised THEN o.exception ELSE d.exception)),
           table |-> table, called |-> called]
     ELSE [ret |-> select_primary(result, o, d),
           table |-> _store_model_comparison(table, query, task_type, result, in.write_ok),
           called |-> called]

\* MultiModelAI._generate_with_both_models: [ret, table, called]; table is
\* model_comparisons after the call.  The comparison is stored before the
\* primary is chosen.
_generate_with_both_models(self, table, query, language, task_type, in) ==
  LET o == _call_openai(self, in.openai)
      d == _call_deepseek(self, in.deepseek)
      result == comparison_result(o, d, task_type, language)
  IN [ret |-> select_primary(result, o, d),
      table |-> _store_model_comparison(table, query, task_type, result, in.write_ok),
      called |-> {b \in Backends : IF b = "openai" THEN o.called ELSE d.called}]

\* MultiModelAI.generate_enhanced_response: [ret, db, called]; db is
\* [model_performance, model_comparisons].  An exception of a callee would
\* pass through to the caller as ret = [raised |-> its message].
generate_enhanced_response(self, db, query, language, task_type, use_both_models, in) ==
  IF use_both_models /\ self.openai_client /\ self.deepseek_available
  THEN LET out == _generate_with_both_models(self, db.model_comparisons, query, language,
                                             task_type, in)
       IN [ret |-> out.ret, db |-> [db EXCEPT !.model_comparisons = out.table],
           called |-> out.called]
  ELSE LET selected_model == select_optimal_model(self, db.model_performance, task_type,
                                                  language, in.read_ok)
           out == _generate_with_single_model(self, db.model_performance, query, language,
                                              task_type, selected_model, in)
       IN [ret |-> out.ret, db |-> [db EXCEPT !.model_performance = out.table],
           called |-> out.called]

\* --------------------------------------------- MultiModelAI: state machine
Queries == {"q"}

TaskTypes == {"code_generation", "debugging"}

Languages == {"python", "javascript"}

\* what a request meets: each backend's answer and the database's behaviour
\* on the history query and on the insert
AIInputs ==
  [openai : ApiOutcomes, deepseek : ApiOutcomes, read_ok : BOOLEAN, write_ok : BOOLEAN]

\* the answer of a backend that is not reached makes no difference
Unreached == [ok |-> FALSE, error |-> <<"API error">>]

\* the inputs a request reads: in dual mode both answers and the insert, in
\* single mode the history query, the selected backend's answer and the insert
InputsRead(self, table, task_type, language, use_both_models) ==
  IF use_both_models /\ self.openai_client /\ self.deepseek_available
  THEN {in \in AIInputs : in.read_ok}
  ELSE {in \in AIInputs :
          \E selected \in {select_optimal_model(self, table, task_type, language,
                                                in.read_ok)} :
            /\ (selected # "openai" \/ ~self.openai_client) => in.openai = Unreached
            /\ (selected # "deepseek" \/ ~self.deepseek_available) => in.deepseek = Unreached
            \* the insert is made only after an answer
            /\ (~in.openai.ok /\ ~in.deepseek.ok) => in.write_ok
            \* the history query's failure matters only where the query has a result
            /\ _get_best_performing_model(table, task_type, language, TRUE) = "None"
                 => in.read_ok}

Self == [openai_client |-> openai_client, deepseek_available |-> deepseek_available]

Db == [model_performance |-> model_performance, model_comparisons |-> model_comparisons]

\* MultiModelAI.__init__: the keys are read from the environment
InitMultiModelAI ==
  /\ openai_client \in BOOLEAN
  /\ deepseek_available \in BOOLEAN
  /\ model_performance = <<>>
  /\ model_comparisons = <<>>
  /\ response = [success |-> FALSE]
  /\ request = [op |-> "init"]

\* the process is started again: __init__ reads the keys anew, the database
\* file is kept
Construct ==
  /\ openai_client' \in BOOLEAN
  /\ deepseek_available' \in BOOLEAN
  /\ response' = [success |-> FALSE]
  /\ request' = [op |-> "init"]
  /\ UNCHANGED <<model_performance, model_comparisons, trainVars, fnVars>>

\* a request: api/enhanced_routes.py calling generate_enhanced_response
GenerateEnhancedResponse ==
  /\ Len(model_performance) < MaxRecords
  /\ Len(model_comparisons) < MaxComparisons
  /\ \E query \in Queries, language \in Languages, task_type \in TaskTypes,
        use_both_models \in BOOLEAN :
     \E in \in InputsRead(Self, model_performance, task_type, language, use_both_models) :
     \E out \in {generate_enhanced_response(Self, Db, query, language, task_type,
                                            use_both_models, in)} :
          /\ response' = out.ret
          /\ model_performance' = out.db.model_performance
          /\ model_comparisons' = out.db.model_comparisons
          /\ request' = [op |-> "generate_enhanced_response", query |-> query,
                         language |-> language, task_type |-> task_type,
                         use_both_models |-> use_both_models, called |-> out.called,
                         outcomes |-> [b \in out.called |-> in[b]],
                         write_ok |-> in.write_ok]
  /\ UNCHANGED <<openai_client, deepseek_available, trainVars, fnVars>>

NextAI ==
  \/ Construct
  \/ GenerateEnhancedResponse

InitInvoker == IdleTrainer /\ InitMultiModelAI /\ InitFn

SpecAI == InitInvoker /\ [][NextAI]_vars

\* ------------------------------- select_optimal_model on drawn inputs
AllTaskTypes == {"code_generation", "debugging", "learning", "architecture", "general"}

AllLanguages == {"python", "javascript", "react", "general", "all", "rust", "7"}

\* a MultiModelAI with an empty history and a (task_type, language) to select for
InitSelect ==
  /\ IdleTrainer /\ InitFn
  /\ openai_client \in BOOLEAN
  /\ deepseek_available \in BOOLEAN
  /\ model_performance = <<>>
  /\ model_comparisons = <<>>
  /\ response = [selected |-> "unset"]
  /\ request \in {[op |-> "select_optimal_model", task_type |-> t, language |-> l] :
                    t \in AllTaskTypes, l \in AllLanguages}

SelectOptimalModel ==
  /\ response.selected = "unset"
  /\ \E read_ok \in BOOLEAN :
       response' = [selected |-> select_optimal_model(Self, model_performance,
                                                      request.task_type, request.language,
                                                      read_ok)]
  /\ UNCHANGED <<openai_client, deepseek_available, model_performance, model_comparisons,
                 request, trainVars, fnVars>>

NextSelect == SelectOptimalModel

SpecSelect == InitSelect /\ [][NextSelect]_vars

\* ---------------------------- cleanup_old_backups on a drawn backups folder
\* the backups folder after n backups made one second apart, oldest first
BackupsFolder(n) ==
  [i \in 1..n |-> [version |-> Version("", i), dir |-> Model(Version("", i), NotEvaluated)]]

InitCleanup ==
  /\ ML_AVAILABLE = FALSE
  /\ clock = 0
  /\ current = NoModel
  /\ backups \in {BackupsFolder(n) : n \in 0..MaxDirs}
  /\ model_metrics = <<>>
  /\ training_data = {}
  /\ results = [success |-> FALSE]
  /\ call = Called("init", "not called")
  /\ InitAI /\ InitFn

\* ModelManager.cleanup_old_backups(keep_count) called on the folder
CleanupOldBackups ==
  /\ \E keep_count \in 0..MaxKeep, rm \in RmOutcomes :
       LET out == cleanup_old_backups(TrainerState.m, keep_count, rm)
       IN Apply([st |-> [TrainerState EXCEPT !.m = out.m],
                 results |-> [success |-> out.ret],
                 call |-> [op |-> "cleanup_old_backups", promote |-> "not called",
                           keep_count |-> keep_count,
                           listed |-> Len(list_backups(TrainerState.m))]])
  /\ UNCHANGED <<ML_AVAILABLE, clock, aiVars, fnVars>>

NextCleanup == CleanupOldBackups

SpecCleanup == InitCleanup /\ [][NextCleanup]_vars

\* ------------------------- mark_training_data_used on a drawn table and ids
\* quality scores of the rows, on both sides of MIN_QUALITY_SCORE
SampleQualities == {4000, 6000}

\* the training_data tables the database may hold: rows with distinct ids
TrainingTables ==
  UNION {{{[id |-> i, quality_score |-> q[i]] : i \in ids} : q \in [ids -> SampleQualities]} :
           ids \in SUBSET (1..MaxSamples)}

InitMark ==
  /\ ML_AVAILABLE = FALSE
  /\ clock = 0
  /\ current = NoModel
  /\ backups = <<>>
  /\ model_metrics = <<>>
  /\ training_data \in TrainingTables
  /\ results = [success |-> FALSE]
  /\ call = Called("init", "not called")
  /\ InitAI /\ InitFn

\* trainer.py:104-105: the ids of a run's samples handed to
\* DataProcessor.mark_training_data_used
MarkTrainingDataUsed ==
  /\ call.op = "init"
  /\ \E training_ids \in SUBSET (1..MaxSamples) :
       LET out == mark_training_data_used(training_data, training_ids)
       IN /\ training_data' = out.table
          /\ results' = [success |-> out.ret]
          /\ call' = [op |-> "mark_training_data_used", promote |-> "not called",
                      training_ids |-> training_ids]
  /\ UNCHANGED <<ML_AVAILABLE, clock, current, backups, model_metrics, aiVars, fnVars>>

NextMark == MarkTrainingDataUsed

SpecMark == InitMark /\ [][NextMark]_vars

\* --------------- select_optimal_model on a history written by requests
\* One client sends single-mode requests for one (task_type, language) pair,
\* held in request; the process may be started again with other keys in
\* between, so that either backend can gather a history for the pair.
\* the language argument is the client's string: a programming language, or
\* any other text, such as one whose characters occur in a query_hash
HistoryLanguages == Languages \cup {"7"}

InitHistory ==
  /\ IdleTrainer /\ InitFn
  /\ openai_client \in BOOLEAN
  /\ deepseek_available \in BOOLEAN
  /\ model_performance = <<>>
  /\ model_comparisons = <<>>
  /\ response = [success |-> FALSE]
  /\ request \in {[op |-> "init", task_type |-> t, language |-> l, read_ok |-> TRUE] :
                    t \in TaskTypes, l \in HistoryLanguages}

\* MultiModelAI.__init__ run again: the keys are read anew, the database kept
Restart ==
  /\ openai_client' \in BOOLEAN
  /\ deepseek_available' \in BOOLEAN
  /\ response' = [success |-> FALSE]
  /\ request' = [request EXCEPT !.op = "init", !.read_ok = TRUE]
  /\ UNCHANGED <<model_performance, model_comparisons, trainVars, fnVars>>

\* a single-mode request for the pair
RequestSingle ==
  /\ Len(model_performance) < MaxHistory
  /\ \E in \in InputsRead(Self, model_performance, request.task_type, request.language,
                          FALSE) :
     \E out \in {generate_enhanced_response(Self, Db, "q", request.language,
                                            request.task_type, FALSE, in)} :
          /\ response' = out.ret
          /\ model_performance' = out.db.model_performance
          /\ model_comparisons' = out.db.model_comparisons
          /\ request' = [request EXCEPT !.op = "generate_enhanced_response",
                                        !.read_ok = in.read_ok]
  /\ UNCHANGED <<openai_client, deepseek_available, trainVars, fnVars>>

\* select_optimal_model called for the pair on the history gathered so far
SelectFromHistory ==
  /\ \E read_ok \in BOOLEAN :
       /\ response' = [selected |-> select_optimal_model(Self, model_performance,
                                                         request.task_type,
                                                         request.language, read_ok)]
       /\ request' = [request EXCEPT !.op = "select_optimal_model", !.read_ok = read_ok]
  /\ UNCHANGED <<openai_client, deepseek_available, model_performance, model_comparisons,
                 trainVars, fnVars>>

NextHistory ==
  \/ Restart
  \/ RequestSingle
  \/ SelectFromHistory

SpecHistory == InitHistory /\ [][NextHistory]_vars

\* ------------------- _generate_with_both_models, one event-loop step at a time
\* request holds the coroutine's position (pc), the status of the two tasks
\* asyncio.gather runs and what each handed back.  _call_openai and
\* _call_deepseek are coroutines without an await: the OpenAI client and
\* requests.post block the event loop's only thread, so a task that has
\* started keeps the loop until it is done.
TaskStatus == {"created", "scheduled", "running", "done"}

\* _generate_with_both_models is entered (both backends have credentials) and
\* has created the two coroutine objects
InitDual ==
  /\ IdleTrainer /\ InitFn
  /\ openai_client = TRUE
  /\ deepseek_available = TRUE
  /\ model_performance = <<>>
  /\ model_comparisons = <<>>
  /\ response = [success |-> FALSE]
  /\ request \in {[op |-> "_generate_with_both_models", query |-> q, language |-> l,
                   task_type |-> t, in |-> in, pc |-> "gather",
                   status |-> [b \in Backends |-> "created"],
                   ready |-> <<>>, gathered |-> EmptyDict] :
                    q \in Queries, l \in Languages, t \in TaskTypes,
                    in \in {i \in AIInputs : i.read_ok}}

\* await asyncio.gather(openai_task, deepseek_task, return_exceptions=True):
\* both coroutines become tasks, put on the event loop's ready queue in the
\* order of gather's arguments
Gather ==
  /\ request.op = "_generate_with_both_models"
  /\ request.pc = "gather"
  /\ request' = [request EXCEPT !.pc = "await",
                                !.status = [b \in Backends |-> "scheduled"],
                                !.ready = <<"openai", "deepseek">>]
  /\ UNCHANGED <<openai_client, deepseek_available, model_performance, model_comparisons,
                 response, trainVars, fnVars>>

\* the event loop starts the first task of its ready queue; it has one
\* thread, which a task running a blocking call holds
TaskStart ==
  /\ request.op = "_generate_with_both_models"
  /\ request.pc = "await"
  /\ \A b \in Backends : request.status[b] # "running"
  /\ request.ready # <<>>
  /\ request' = [request EXCEPT !.status[Head(request.ready)] = "running",
                                !.ready = Tail(@)]
  /\ UNCHANGED <<openai_client, deepseek_available, model_performance, model_comparisons,
                 response, trainVars, fnVars>>

\* the running task's API call returns or raises: the task is done
TaskEnd ==
  /\ request.op = "_generate_with_both_models"
  /\ \E b \in Backends :
       /\ request.status[b] = "running"
       /\ request' = [request EXCEPT
                        !.status[b] = "done",
                        !.gathered = (b :> (IF b = "openai" THEN _call_openai(Self, request.in.openai)
                                            ELSE _call_deepseek(Self, request.in.deepseek))) @@ @]
  /\ UNCHANGED <<openai_client, deepseek_available, model_performance, model_comparisons,
                 response, trainVars, fnVars>>

\* gather returns when both tasks are done: the result is built, the
\* comparison stored, the primary chosen and the dict returned
GatherReturns ==
  /\ request.op = "_generate_with_both_models"
  /\ request.pc = "await"
  /\ \A b \in Backends : request.status[b] = "done"
  /\ \E result \in {comparison_result(request.gathered["openai"], request.gathered["deepseek"],
                                      request.task_type, request.language)} :
       /\ model_comparisons' = _store_model_comparison(model_comparisons, request.query,
                                                       request.task_type, result,
                                                       request.in.write_ok)
       /\ response' = select_primary(result, request.gathered["openai"],
                                     request.gathered["deepseek"])
  /\ request' = [request EXCEPT !.pc = "returned"]
  /\ UNCHANGED <<openai_client, deepseek_available, model_performance, trainVars, fnVars>>

NextDual ==
  \/ Gather
  \/ TaskStart
  \/ TaskEnd
  \/ GatherReturns

SpecDual == InitDual /\ [][NextDual]_vars

\* ------------------------------------------- the scheduler and its jobs
\* call holds the scheduler's bookkeeping: for each job the number of
\* instances its executor is running, and for each manual trigger the number
\* of callers inside it.
Jobs == {"data_collection", "model_training", "model_evaluation", "weekly_cleanup",
         "health_check"}

\* the jobs that have a trigger_immediate_* function
ManualJobs == {"data_collection", "model_training"}

\* add_job(..., max_instances=1), the same for the five jobs
max_instances == 1

\* BackgroundScheduler() after setup_scheduled_tasks and start(): no job runs
InitSched ==
  /\ ML_AVAILABLE = FALSE
  /\ clock = 0
  /\ current = NoModel
  /\ backups = <<>>
  /\ model_metrics = <<>>
  /\ training_data = {}
  /\ results = [success |-> FALSE]
  /\ call = [op |-> "start", job |-> "none", promote |-> "not called",
             instances |-> [j \in Jobs |-> 0], manual |-> [j \in ManualJobs |-> 0]]
  /\ InitAI /\ InitFn

\* a job's trigger fires: the executor starts the job function in a pool
\* thread unless max_instances instances of the job are running, in which
\* case the firing is skipped
JobFires ==
  /\ \E j \in Jobs :
       call' = IF call.instances[j] >= max_instances
               THEN [call EXCEPT !.op = "skipped", !.job = j]
               ELSE [call EXCEPT !.op = "submitted", !.job = j, !.instances[j] = @ + 1]
  /\ UNCHANGED <<ML_AVAILABLE, clock, current, backups, model_metrics, training_data,
                 results, aiVars, fnVars>>

\* a job function started by the executor returns
JobReturns ==
  /\ \E j \in Jobs :
       /\ call.instances[j] > 0
       /\ call' = [call EXCEPT !.op = "returned", !.job = j, !.instances[j] = @ - 1]
  /\ UNCHANGED <<ML_AVAILABLE, clock, current, backups, model_metrics, training_data,
                 results, aiVars, fnVars>>

\* trigger_immediate_data_collection / trigger_immediate_training: the job
\* function is called in the caller's own thread
TriggerImmediate ==
  /\ \E j \in ManualJobs :
       /\ call.manual[j] < MaxCallers
       /\ call' = [call EXCEPT !.op = "triggered", !.job = j, !.manual[j] = @ + 1]
  /\ UNCHANGED <<ML_AVAILABLE, clock, current, backups, model_metrics, training_data,
                 results, aiVars, fnVars>>

\* the job function a trigger_immediate_* caller is in returns
TriggerReturns ==
  /\ \E j \in ManualJobs :
       /\ call.manual[j] > 0
       /\ call' = [call EXCEPT !.op = "trigger returned", !.job = j, !.manual[j] = @ - 1]
  /\ UNCHANGED <<ML_AVAILABLE, clock, current, backups, model_metrics, training_data,
                 results, aiVars, fnVars>>

NextSched ==
  \/ JobFires
  \/ JobReturns
  \/ TriggerImmediate
  \/ TriggerReturns

SpecSched == InitSched /\ [][NextSched]_vars

\* ------------------- _estimate_response_quality on texts, character by character
\* A text is [chars, filler]: a sequence of characters followed by filler
\* further characters "." (which occur in no phrase the function looks for).
\* "bq" stands for the backquote character.
Upper == <<"A", "B", "C", "D", "E", "F", "G", "H", "I", "J", "K", "L", "M", "N", "O", "P", "Q", "R", "S", "T", "U", "V", "W", "X", "Y", "Z">>

Lower == <<"a", "b", "c", "d", "e", "f", "g", "h", "i", "j", "k", "l", "m", "n", "o", "p", "q", "r", "s", "t", "u", "v", "w", "x", "y", "z">>

\* str.lower() on the characters of a text
lower(s) ==
  [i \in 1..Len(s) |->
     IF \E k \in 1..Len(Upper) : Upper[k] = s[i]
     THEN Lower[CHOOSE k \in 1..Len(Upper) : Upper[k] = s[i]]
     ELSE s[i]]

\* the pieces the drawn texts are made of
Words ==
  {<<"bq", "bq", "bq">>,
   <<"b", "e", "c", "a", "u", "s", "e">>,
   <<"T", "h", "i", "s", " ", "i", "s">>,
   <<"b", "e", "s", "t", " ", "p", "r", "a", "c", "t", "i", "c", "e">>,
   <<"R", "e", "c", "o", "m", "m", "e", "n", "d", "e", "d">>,
   <<"E", "x", "a", "m", "p", "l", "e">>,
   <<"o", "k">>,
   <<"F", "o", "r", " ", "e", "x", "a", "m", "p", "l", "e", ",", " ", "s", "i", "n", "c", "e", " ", "i", "t", " ", "i", "s", " ", "t", "h", "e", " ", "R", "E", "C", "O", "M", "M", "E", "N", "D", "E", "D", " ", "w", "a", "y">>}

\* len(content)
len(text) == Len(text.chars) + text.filler

\* sub in content
contains(text, sub) == like(text.chars, sub)

\* sub in content.lower()
lower_contains(text, sub) == like(lower(text.chars), sub)

\* as detected_features, with the length test the other way round
detected_features_short(text) ==
  (IF contains(text, <<"bq", "bq", "bq">>) THEN {"code_block"} ELSE {}) \cup
  (IF \E word \in {<<"b", "e", "c", "a", "u", "s", "e">>,
                   <<"s", "i", "n", "c", "e">>,
                   <<"t", "h", "i", "s", " ", "i", "s">>,
                   <<"e", "x", "p", "l", "a", "n", "a", "t", "i", "o", "n">>} :
        lower_contains(text, word)
   THEN {"explanation"} ELSE {}) \cup
  (IF \/ lower_contains(text, <<"b", "e", "s", "t", " ", "p", "r", "a", "c", "t", "i", "c", "e">>)
      \/ lower_contains(text, <<"r", "e", "c", "o", "m", "m", "e", "n", "d", "e", "d">>)
   THEN {"best_practice"} ELSE {}) \cup
  (IF lower_contains(text, <<"e", "x", "a", "m", "p", "l", "e">>) THEN {"example"} ELSE {}) \cup
  (IF len(text) <= LONG_LENGTH THEN {"long"} ELSE {})

\* the five checks of _estimate_response_quality, as the set of those that add 0.1
detected_features(text) ==
  (IF contains(text, <<"bq", "bq", "bq">>) THEN {"code_block"} ELSE {}) \cup
  (IF \E word \in {<<"b", "e", "c", "a", "u", "s", "e">>,
                   <<"s", "i", "n", "c", "e">>,
                   <<"t", "h", "i", "s", " ", "i", "s">>,
                   <<"e", "x", "p", "l", "a", "n", "a", "t", "i", "o", "n">>} :
        lower_contains(text, word)
   THEN {"explanation"} ELSE {}) \cup
  (IF \/ lower_contains(text, <<"b", "e", "s", "t", " ", "p", "r", "a", "c", "t", "i", "c", "e">>)
      \/ lower_contains(text, <<"r", "e", "c", "o", "m", "m", "e", "n", "d", "e", "d">>)
   THEN {"best_practice"} ELSE {}) \cup
  (IF lower_contains(text, <<"e", "x", "a", "m", "p", "l", "e">>) THEN {"example"} ELSE {}) \cup
  (IF len(text) > LONG_LENGTH THEN {"long"} ELSE {})

\* _estimate_response_quality(content, task_type) on a text
quality_of_text(text, task_type) ==
  _estimate_response_quality(Content(len(text) = 0, detected_features(text)))

\* the texts of at most MaxWords pieces, each followed by a space, and a filler
Fillers == {0, 480, 501}

TaskTypeArgs == {"code_generation", "general"}

InitQuality ==
  /\ IdleTrainer /\ InitFn
  /\ openai_client = FALSE
  /\ deepseek_available = FALSE
  /\ model_performance = <<>>
  /\ model_comparisons = <<>>
  /\ request \in {[op |-> "_estimate_response_quality",
                   content |-> [chars |-> <<>>, filler |-> f], task_type |-> t,
                   words |-> 0] : f \in Fillers, t \in TaskTypeArgs}
  /\ response = [quality |-> quality_of_text(request.content, request.task_type)]

\* the function called again on the text with one more piece put at its end
ScoreLongerText ==
  /\ request.words < MaxWords
  /\ \E w \in Words :
       LET content == [request.content EXCEPT !.chars = @ \o w \o <<" ">>]
       IN /\ request' = [request EXCEPT !.content = content, !.words = @ + 1]
          /\ response' = [quality |-> quality_of_text(content, request.task_type)]
  /\ UNCHANGED <<openai_client, deepseek_available, model_performance, model_comparisons,
                 trainVars, fnVars>>

\* the function called again on the text with more filler
ScorePaddedText ==
  /\ \E f \in Fillers :
       /\ f > request.content.filler
       /\ LET content == [request.content EXCEPT !.filler = f]
          IN /\ request' = [request EXCEPT !.content = content]
             /\ response' = [quality |-> quality_of_text(content, request.task_type)]
  /\ UNCHANGED <<openai_client, deepseek_available, model_performance, model_comparisons,
                 trainVars, fnVars>>

\* the function called on the same text for another task_type
ScoreForOtherTask ==
  /\ \E t \in TaskTypeArgs :
       /\ request' = [request EXCEPT !.task_type = t]
       /\ response' = [quality |-> quality_of_text(request.content, t)]
  /\ UNCHANGED <<openai_client, deepseek_available, model_performance, model_comparisons,
                 trainVars, fnVars>>

NextQuality ==
  \/ ScoreLongerText
  \/ ScorePaddedText
  \/ ScoreForOtherTask

SpecQuality == InitQuality /\ [][NextQuality]_vars

\* ------------- the training_data table under every operation that reads or
\* ------------- writes it, and under the weekly cleanup
\* trainer.py:40-43: the pull of a training run, the rows returned kept in
\* results
GetTrainingDataForModel ==
  /\ results' = [success |-> TRUE,
                 pulled |-> get_training_data_for_model(training_data, TRAINING_LIMIT,
                                                        MIN_QUALITY_SCORE)]
  /\ call' = Called("get_training_data_for_model", "not called")
  /\ UNCHANGED <<ML_AVAILABLE, clock, current, backups, model_metrics, training_data,
                 aiVars, fnVars>>

NextSamples ==
  \/ MarkTrainingDataUsed
  \/ GetTrainingDataForModel
  \/ TrainModelWithNewData
  \/ CleanupTask

SpecSamples == InitMark /\ [][NextSamples]_vars

\* ------------- training runs and the weekly cleanup over a backups folder
\* a ModelManager over a folder of backups made earlier, with or without a
\* current model
InitRetention ==
  /\ ML_AVAILABLE \in BOOLEAN
  /\ clock = 0
  /\ current \in {NoModel, Model(Version("retrain_", 0), NotEvaluated)}
  /\ backups \in {BackupsFolder(n) : n \in 0..MaxDirs}
  /\ model_metrics = <<>>
  /\ training_data = {}
  /\ results = [success |-> FALSE]
  /\ call = Called("init", "not called")
  /\ InitAI /\ InitFn

\* ModelTrainer.train_model_with_new_data, called by the training job or
\* directly, whatever the folder holds
TrainingJob ==
  /\ \E force_training \in BOOLEAN :
       LET training_data_ == get_training_data_for_model(training_data, TRAINING_LIMIT,
                                                         MIN_QUALITY_SCORE)
       IN IF \/ training_data_ = <<>>
             \/ (Len(training_data_) < MIN_TRAINING_SAMPLES /\ ~force_training)
          THEN Apply(Forced(train_model_with_new_data(TrainerState, ML_AVAILABLE, clock,
                                                      force_training, NoInputs),
                            force_training))
          ELSE \E in \in TrainInputs :
                 Apply(Forced(train_model_with_new_data(TrainerState, ML_AVAILABLE, clock,
                                                        force_training, in),
                              force_training))
  /\ UNCHANGED <<ML_AVAILABLE, clock, aiVars, fnVars>>

NextRetention ==
  \/ TrainingJob
  \/ CleanupTask

SpecRetention == InitRetention /\ [][NextRetention]_vars

\* ------------- create_backup(v), promotions and restore_backup(v) on a
\* ------------- ModelManager; call keeps v, the model that was current when
\* ------------- create_backup(v) returned True, and whether a promotion followed
\* ModelManager.create_backup(model_version), the call that is followed
BackupCurrent ==
  /\ "saved" \notin DOMAIN call
  /\ \E v \in Versions \cup {NoneVersion} :
     \E cp \in IF exists(current) THEN CopyOutcomes ELSE {"ok"} :
       LET out == create_backup(TrainerState.m, v, clock, cp)
       IN Apply([st |-> [TrainerState EXCEPT !.m = out.m],
                 results |-> [success |-> out.ret],
                 call |-> [op |-> "create_backup", promote |-> "not called",
                           model_version |-> IF v = NoneVersion THEN Version("", clock)
                                             ELSE v,
                           saved |-> IF out.ret THEN current ELSE NoModel,
                           promoted |-> FALSE]])
  /\ UNCHANGED <<ML_AVAILABLE, clock, aiVars, fnVars>>

\* ModelManager.promote_model(new_model_path, model_version) after a backup,
\* of a newly trained model evaluated at min_accuracy
PromoteModel ==
  /\ "saved" \in DOMAIN call
  /\ \E version \in {Version(p, clock) : p \in {"", "retrain_"}} :
     \* each outcome is read only by the call that is made
     \E bk \in IF exists(current) /\ ~exists(backup_path(backups, version))
                THEN CopyOutcomes ELSE {"ok"},
        rm \in IF exists(current) THEN RmOutcomes ELSE {"ok"},
        cp \in CopyOutcomes :
       /\ rm # "ok" => cp = "ok"
       /\ LET out == promote_model(TrainerState.m, Model(version, min_accuracy), version,
                                   clock, bk, rm, cp)
          IN Apply([st |-> [TrainerState EXCEPT !.m = out.m],
                    results |-> [success |-> out.ret],
                    call |-> [call EXCEPT !.op = "promote_model",
                                          !.promote = PyBool(out.ret),
                                          !.promoted = @ \/ out.ret]])
  /\ UNCHANGED <<ML_AVAILABLE, clock, aiVars, fnVars>>

\* ModelManager.cleanup_old_backups(keep_count=5) after a backup
PruneBackups ==
  /\ "saved" \in DOMAIN call
  /\ \E rm \in IF Len(backups) > KEEP_COUNT THEN RmOutcomes ELSE {"ok"} :
       LET out == cleanup_old_backups(TrainerState.m, KEEP_COUNT, rm)
       IN Apply([st |-> [TrainerState EXCEPT !.m = out.m],
                 results |-> [success |-> out.ret],
                 call |-> [call EXCEPT !.op = "cleanup_old_backups",
                                       !.promote = "not called"]])
  /\ UNCHANGED <<ML_AVAILABLE, clock, aiVars, fnVars>>

\* ModelManager.restore_backup(model_version) of the version backed up
RestoreSaved ==
  /\ "saved" \in DOMAIN call
  /\ \E rm \in RestoreReads(call.model_version, exists(current), RmOutcomes),
        cp \in RestoreReads(call.model_version, TRUE, CopyOutcomes) :
       /\ rm # "ok" => cp = "ok"
       /\ LET out == restore_backup(TrainerState.m, call.model_version, rm, cp)
          IN Apply([st |-> [TrainerState EXCEPT !.m = out.m],
                    results |-> [success |-> out.ret],
                    call |-> [call EXCEPT !.op = "restore_backup",
                                          !.promote = "not called"]])
  /\ UNCHANGED <<ML_AVAILABLE, clock, aiVars, fnVars>>

NextRoundTrip ==
  \/ BackupCurrent
  \/ PromoteModel
  \/ PruneBackups
  \/ RestoreSaved

\* a ModelManager with a current model over a folder of earlier backups
InitRoundTrip ==
  /\ InitRetention
  /\ ML_AVAILABLE = FALSE
  /\ exists(current)
  /\ Len(backups) \in {0, KEEP_COUNT - 1, KEEP_COUNT}

SpecRoundTrip == InitRoundTrip /\ [][NextRoundTrip]_vars

\* ================================================================ claims
TrainingOps == {"train_model_with_new_data", "retrain_from_scratch"}

\* C1: a training run (train_model_with_new_data or retrain_from_scratch)
\* never puts into the current slot a newly trained model whose evaluated
\* accuracy_score is below 0.4.
C1_NoPromotionBelowMinAccuracy ==
  (/\ call.op \in TrainingOps
   /\ call.promote = "True"
   /\ current.acc # NotEvaluated)
  => current.acc >= min_accuracy

\* C2: once a model with evaluated accuracy p is in the slot, a training run
\* whose evaluated accuracy is below p + 0.05 does not replace it.
C2_NoPromotionWithoutImprovement ==
  [][(/\ call'.op \in TrainingOps
      /\ call'.promote = "True"
      /\ current.kind = "model"
      /\ current.acc # NotEvaluated
      /\ current'.acc # NotEvaluated)
     => current'.acc >= current.acc + improvement_threshold]_vars

\* C3: _should_promote_model returns true exactly when there is no error,
\* accuracy_score >= 0.4, success_rate >= 0.7 and (there are no previous
\* metrics or accuracy_score >= previous accuracy_score + 0.05), a missing
\* accuracy_score or success_rate counting as 0.
C3_PromoteExactlyWhenGuardsHold ==
  decision # "unset" =>
    LET acc == IF "accuracy_score" \in DOMAIN arg_evaluation
               THEN arg_evaluation.accuracy_score ELSE 0
        sr == IF "success_rate" \in DOMAIN arg_evaluation
              THEN arg_evaluation.success_rate ELSE 0
    IN (decision = "True") <=>
         (/\ "error" \notin DOMAIN arg_evaluation
          /\ acc >= 4000
          /\ sr >= 7000
          /\ (Len(arg_previous) = 0
              \/ acc >= arg_previous[1].accuracy_score + 500))

\* C3 witness: previous 0.6, new 0.66 with success_rate 0.7: promoted
C3_Witness ==
  /\ decision = "True"
  /\ Len(arg_previous) = 1
  /\ arg_previous[1].accuracy_score = 6000
  /\ arg_evaluation = [accuracy_score |-> 6600, success_rate |-> 7000]

\* C4: when promote_model or restore_backup returns, the slot holds the model
\* it held before the call or, the call having succeeded, a complete model.
C4_PromotionAtomic ==
  [][(call'.promote \in {"True", "False"} \/ call'.op = "restore_backup")
     => \/ current' = current
        \/ /\ current'.kind = "model"
           /\ \/ call'.promote = "True"
              \/ (call'.op = "restore_backup" /\ results'.success)]_vars

\* C5: whenever an operation that calls promote_model removes a complete
\* current model, a backup directory holds a copy of that model.
C5_BackedUpBeforeReplaced ==
  [][(/\ call'.promote \in {"True", "False"}
      /\ current.kind = "model"
      /\ current' # current)
     => \E i \in 1..Len(backups') : backups'[i].dir = current]_vars

\* C6: with no history, select_optimal_model returns the configured primary
\* backend if it is available, else the configured fallback if it is
\* available, else any available backend, and fails explicitly (returns no
\* backend id) if no backend is available.
C6_SelectPrimaryFallbackAnyOrFail ==
  (request.op = "select_optimal_model" /\ response.selected # "unset") =>
    LET available(b) == IF b = "openai" THEN openai_client ELSE deepseek_available
        prefs == lang_prefs(request.task_type, request.language)
        primary == IF "primary" \in DOMAIN prefs THEN prefs.primary ELSE "openai"
        fallback == IF "fallback" \in DOMAIN prefs THEN prefs.fallback ELSE "openai"
    IN IF available(primary) THEN response.selected = primary
       ELSE IF available(fallback) THEN response.selected = fallback
       ELSE IF \E b \in Backends : available(b) THEN available(response.selected)
       ELSE response.selected \notin Backends

\* C7: a request made while no backend has credentials returns success=false
\* with the no-available-models error, reaches no backend and leaves the
\* model_performance table as it was.
C7_NoCredentialsExplicitError ==
  [][(/\ request'.op = "generate_enhanced_response"
      /\ ~openai_client
      /\ ~deepseek_available)
     => /\ response'.success = FALSE
        /\ "error" \in DOMAIN response'
        /\ response'.error = <<"No available models for this request">>
        /\ request'.called = {}
        /\ model_performance' = model_performance]_vars

\* C7 witness: a dual-mode request answered with an error while no backend
\* has credentials
C7_Witness ==
  /\ request.op = "generate_enhanced_response"
  /\ ~openai_client
  /\ ~deepseek_available
  /\ request.use_both_models
  /\ response.success = FALSE
  /\ request.called = {}

DualMode ==
  /\ request.op = "generate_enhanced_response"
  /\ request.use_both_models
  /\ openai_client
  /\ deepseek_available

ErrorField(b) == IF b = "openai" THEN "openai_error" ELSE "deepseek_error"

\* C8: a dual-mode request where one backend raises and the other succeeds
\* returns success=true, the successful backend as primary_model, its content
\* as response, and the other backend's error in that backend's error field.
C8_DualOneFailure ==
  \A good \in Backends, bad \in Backends :
    (/\ DualMode
     /\ good # bad
     /\ request.outcomes[good].ok
     /\ ~request.outcomes[bad].ok)
    => /\ "raised" \notin DOMAIN response
       /\ response.success = TRUE
       /\ "primary_model" \in DOMAIN response
       /\ response.primary_model = good
       /\ response.response = request.outcomes[good].content
       /\ ErrorField(bad) \in DOMAIN response
       /\ response[ErrorField(bad)] = request.outcomes[bad].error
       /\ ErrorField(good) \notin DOMAIN response

\* C8 witness: openai raised, deepseek answered and is primary
C8_Witness ==
  /\ DualMode
  /\ ~request.outcomes["openai"].ok
  /\ request.outcomes["deepseek"].ok
  /\ response.success = TRUE
  /\ response.primary_model = "deepseek"
  /\ response.openai_error = <<"API error">>

\* C9: a dual-mode request where both backends raise returns success=false
\* with the error of the whole request (and each backend's own error), and
\* neither a primary_model nor a response.
C9_DualBothFail ==
  (/\ DualMode
   /\ ~request.outcomes["openai"].ok
   /\ ~request.outcomes["deepseek"].ok)
  => /\ "raised" \notin DOMAIN response
     /\ response.success = FALSE
     /\ "error" \in DOMAIN response
     /\ response.error = <<"Both models failed to generate responses">>
     /\ "openai_error" \in DOMAIN response
     /\ "deepseek_error" \in DOMAIN response
     /\ "primary_model" \notin DOMAIN response
     /\ "response" \notin DOMAIN response

\* C9 witness: both backends raised in dual mode
C9_Witness ==
  /\ DualMode
  /\ ~request.outcomes["openai"].ok
  /\ ~request.outcomes["deepseek"].ok
  /\ response.success = FALSE
  /\ response.response_type = "comparison"

\* no backend gave an answer to the last request
TotalFailure == \A b \in request.called : ~request.outcomes[b].ok

\* C10: generate_enhanced_response never raises: whatever the credentials,
\* the backends' answers and the database do, it returns a dict with a
\* success key, and when no backend gave an answer that dict has
\* success=false and a non-empty error.
C10_InvokerNeverRaises ==
  request.op = "generate_enhanced_response" =>
    /\ "raised" \notin DOMAIN response
    /\ "success" \in DOMAIN response
    /\ TotalFailure => /\ response.success = FALSE
                       /\ "error" \in DOMAIN response
                       /\ Len(response.error) > 0

\* C10 witness: a single-mode request whose backend raised
C10_Witness ==
  /\ request.op = "generate_enhanced_response"
  /\ ~request.use_both_models
  /\ request.called = {"deepseek"}
  /\ ~request.outcomes["deepseek"].ok
  /\ response.success = FALSE
  /\ response.model_used = "none"

\* C11: the comparison record a dual-mode request writes names the backend
\* chosen as primary: its preferred_model equals the primary_model returned.
C11_PreferredEqualsPrimary ==
  [][(/\ request'.op = "generate_enhanced_response"
      /\ Len(model_comparisons') = Len(model_comparisons) + 1
      /\ "primary_model" \in DOMAIN response')
     => model_comparisons'[Len(model_comparisons')].preferred_model
          = response'.primary_model]_vars

OtherBackend(b) == IF b = "openai" THEN "deepseek" ELSE "openai"

\* C12: in dual mode the two backend calls overlap: when one of them
\* completes the other has already been started; and the comparison record
\* is written only when both have completed or failed.
C12_DualCallsConcurrent ==
  request.op = "_generate_with_both_models" =>
    /\ \A b \in Backends :
         request.status[b] = "done" => request.status[OtherBackend(b)] \in {"running", "done"}
    /\ (request.pc = "returned" \/ model_comparisons # <<>>) =>
         \A b \in Backends : request.status[b] = "done"

HistoryOf(b) == {i \in 1..Len(model_performance) : model_performance[i].model_name = b}

\* a history that qualifies: at least 3 rows with a mean quality above 0.7
GoodHistory(b) ==
  /\ Cardinality(HistoryOf(b)) >= 3
  /\ sum_quality(model_performance, HistoryOf(b)) > 7 * Cardinality(HistoryOf(b))

\* C14: when the history holds at least 3 rows of backend b for the request's
\* (task_type, language) with a mean quality above 0.7 and the other backend
\* has no better qualifying history, select_optimal_model returns b; when no
\* backend has a qualifying history it returns the static choice.
C14_HistoryOverride ==
  (request.op = "select_optimal_model" /\ request.read_ok) =>
    /\ \A b \in Backends :
         (/\ GoodHistory(b)
          /\ ~(/\ GoodHistory(OtherBackend(b))
               /\ sum_quality(model_performance, HistoryOf(OtherBackend(b)))
                    * Cardinality(HistoryOf(b))
                  > sum_quality(model_performance, HistoryOf(b))
                    * Cardinality(HistoryOf(OtherBackend(b)))))
           => response.selected = b
    /\ (\A b \in Backends : ~GoodHistory(b))
         => response.selected = select_optimal_model(Self, <<>>, request.task_type,
                                                     request.language, TRUE)

C16_NotPromotedChangesNothing ==
  [][(/\ call'.op \in TrainingOps
      /\ call'.promote # "True"
      /\ Get(results', "error", "None") \notin {"No training data available",
                                                "Insufficient training data"})
     => /\ current' = current
        /\ training_data' = training_data
        /\ get_training_data_for_model(training_data', TRAINING_LIMIT, MIN_QUALITY_SCORE)
             = get_training_data_for_model(training_data, TRAINING_LIMIT,
                                           MIN_QUALITY_SCORE)]_vars

C20_BackupErrorsAreBooleans ==
  [][/\ call'.op \in {"create_backup", "restore_backup"} => results'.success \in BOOLEAN
     /\ (call'.op = "create_backup" /\ ~exists(current))
          => /\ results'.success = FALSE
             /\ backups' = backups
             /\ current' = current
     /\ (call'.op = "restore_backup" /\ ~exists(backup_path(backups, call'.model_version)))
          => /\ results'.success = FALSE
             /\ current' = current
             /\ backups' = backups]_vars

\* C20 witness: restore_backup of a version without a backup, called over an
\* existing current model, has returned false
C20_Witness ==
  /\ call.op = "restore_backup"
  /\ ~exists(backup_path(backups, call.model_version))
  /\ current.kind = "model"
  /\ results.success = FALSE

\* the runs of a job's function in progress, started by the scheduler or by
\* a manual trigger
RunsOf(j) == call.instances[j] + (IF j \in ManualJobs THEN call.manual[j] ELSE 0)

\* C21: the scheduler runs no job in two instances at once, and two training
\* runs, scheduled or manually triggered, never overlap.
C21_OneInstancePerJob ==
  /\ \A j \in Jobs : call.instances[j] <= 1
  /\ RunsOf("model_training") <= 1

\* C22: the quality score is between 0 and 1, and a non-empty text given a
\* further piece (a code fence, an explanatory word, a best-practice word,
\* the word example) or further length never scores less than before.
C22_QualityBoundedMonotone ==
  [][/\ response'.quality >= 0
     /\ response'.quality <= 10
     /\ (len(request.content) > 0 /\ request'.content # request.content)
          => response'.quality >= response.quality]_vars

\* C22 witness: a text that scored 0.5 was given a code fence and scores 0.6
C22_Witness ==
  /\ request.op = "_estimate_response_quality"
  /\ request.words = 2
  /\ request.content.chars = <<"o", "k", " ", "bq", "bq", "bq", " ">>
  /\ response.quality = 6

\* the number of the five features a text has: 1 for a feature present
Has(present) == IF present THEN 1 ELSE 0

FeatureCount(text) ==
  LET low == lower(text.chars)
  IN Has(like(text.chars, <<"bq", "bq", "bq">>))
     + Has(\/ like(low, <<"b", "e", "c", "a", "u", "s", "e">>)
           \/ like(low, <<"s", "i", "n", "c", "e">>)
           \/ like(low, <<"t", "h", "i", "s", " ", "i", "s">>)
           \/ like(low, <<"e", "x", "p", "l", "a", "n", "a", "t", "i", "o", "n">>))
     + Has(\/ like(low, <<"b", "e", "s", "t", " ", "p", "r", "a", "c", "t", "i", "c", "e">>)
           \/ like(low, <<"r", "e", "c", "o", "m", "m", "e", "n", "d", "e", "d">>))
     + Has(like(low, <<"e", "x", "a", "m", "p", "l", "e">>))
     + Has(Len(text.chars) + text.filler > 500)

AnswerQuality(b) == _estimate_response_quality(request.outcomes[b].content)

\* C24: in a dual-mode request where both backends answer, the primary is the
\* backend whose answer has the strictly higher quality score, openai when
\* the scores are equal, and the response returned is the primary's content.
C24_HigherQualityIsPrimary ==
  (/\ DualMode
   /\ request.outcomes["openai"].ok
   /\ request.outcomes["deepseek"].ok)
  => /\ response.success = TRUE
     /\ "primary_model" \in DOMAIN response
     /\ response.primary_model =
          IF AnswerQuality("deepseek") > AnswerQuality("openai") THEN "deepseek" ELSE "openai"
     /\ response.response = request.outcomes[response.primary_model].content

\* C24 witness: both answered with the same score and openai is primary
C24_Witness ==
  /\ DualMode
  /\ request.outcomes["openai"].ok
  /\ request.outcomes["deepseek"].ok
  /\ AnswerQuality("openai") = AnswerQuality("deepseek")
  /\ response.primary_model = "openai"

\* backend b has credentials
Available(b) == IF b = "openai" THEN openai_client ELSE deepseek_available

\* C25: while at least one backend has credentials, select_optimal_model
\* returns a backend that has credentials, whatever the history, and a
\* single-mode request does not fail for want of an available model.
C25_SelectedBackendAvailable ==
  (openai_client \/ deepseek_available) =>
    /\ request.op = "select_optimal_model" => Available(response.selected)
    /\ request.op = "generate_enhanced_response"
         => Get(response, "error", <<>>) # <<"No available models for this request">>

\* the used-for-training flag of a row; a row without the column is not used
UsedForTraining(r) ==
  IF "used_for_training" \in DOMAIN r THEN r.used_for_training ELSE FALSE

C28_LatestMetricsDescribeCurrent ==
  (/\ call.op \in {"train_model_with_new_data", "retrain_from_scratch", "restore_backup"}
   /\ current.kind = "model") =>
    LET previous_metrics == get_model_metrics(model_metrics, 1)
    IN /\ previous_metrics # <<>>
       /\ previous_metrics[1].model_version = current.version
       /\ previous_metrics[1].accuracy_score = current.acc

\* C29: when a run of train_model_with_new_data returns, whatever its
\* outcome and whether or not the weekly cleanup ran beside it, the backups
\* folder holds at most KEEP_COUNT backups, and the backup the run made of the
\* current model is one of them.
C29_BackupsWithinRetention ==
  [][call'.op = "train_model_with_new_data" =>
       /\ Len(backups') <= KEEP_COUNT
       /\ (/\ exists(current)
           /\ results'.error \notin {"No training data available",
                                     "Insufficient training data"})
          => exists(backup_path(backups', Version("", clock)))]_vars

====
